---- MODULE Spec2Model ----
(***************************************************************************)
(* Model of lxd-port-forward: the forward package (Config.Validate,        *)
(* Forwarder.Forward / Reverse / ForwardContainer / ReverseContainer /     *)
(* Watch) and the command in main, run against an iptables NAT table per   *)
(* IP version and an LXD daemon that reports container state and events.   *)
(*                                                                         *)
(* The packet filter is driven through github.com/coreos/go-iptables,      *)
(* whose calls are thin wrappers around the iptables command:              *)
(*   NewChain    = -N  (fails when the chain exists)                       *)
(*   Insert      = -I  (fails when the chain or the jump target is absent) *)
(*   Append      = -A  (same)                                              *)
(*   Delete      = -D  (fails when no matching rule exists)                *)
(*   ClearChain  = -N, and -F when the chain already existed               *)
(*   DeleteChain = -X  (fails when absent, non-empty or still referenced)  *)
(***************************************************************************)
EXTENDS Integers, Sequences, FiniteSets, TLC

\* ------------------------------------------------------------------ bounds
\* Most events waiting in the monitor's feed.
MaxQueue == 1
\* Most host ports in one PortMappings of a config under validation.
MaxPorts == 2
\* Most PortMappings of container a in a config under validation.
MaxMappings == 1

\* --------------------------------------------------------------- constants
IPv4 == 0
IPv6 == 1
IPVersions == {IPv4, IPv6}

ContainerStarted == "ContainerStart"
ContainerStopped == "ContainerStop"

\* ------------------------------------------------------------ Go utilities
\* All orders in which a Go `range` may visit the keys of a map.
Perms(S) ==
  {s \in [1..Cardinality(S) -> S] : \A i, j \in 1..Cardinality(S) : s[i] = s[j] => i = j}

\* strings.Contains
Contains(s, sub) ==
  \E i \in 1..(Len(s) - Len(sub) + 1) : SubSeq(s, i, i + Len(sub) - 1) = sub

RECURSIVE Flatten(_)
Flatten(ss) == IF ss = <<>> THEN <<>> ELSE Head(ss) \o Flatten(Tail(ss))

\* ------------------------------------------------------ the loaded config
\* Config.Forwards: container name -> sequence of PortMappings, each with a
\* Protocol and the inlined Ports map (host port string -> container port).
Forwards ==
  [ a |-> << [Protocol |-> "tcp", Ports |-> ("8080" :> 80)] >>,
    b |-> << [Protocol |-> "udp", Ports |-> ("53" :> 53)] >> ]

Containers == DOMAIN Forwards

\* A container of the LXD host that the config does not name.
Unconfigured == {"c"}

\* The containers of the LXD host.
Names == Containers \cup Unconfigured

\* getChain (forward.go) with the container left out of the name.
getChainShared(container) == "LXD-"

\* getChain (forward.go): the custom chain of a container.
getChain(container) == "LXD-" \o container

\* Direction (iptables.go) and its String method.
Dst == 0
Src == 1
Directions == {Dst, Src}

DirectionString(d) ==
  CASE d = Dst -> "dst"
    [] d = Src -> "src"
    [] OTHER -> "unknown"

\* getChain (iptables.go) with the direction left out of the name.
getChainNoDirection(container, dir) == "LXD-" \o container

\* getChain (iptables.go): the custom chain of a container and a direction.
\* ForwardContainer and ReverseContainer do not call it.
getChainDir(container, dir) == "LXD-" \o container \o "-" \o DirectionString(dir)

\* The rule that sends PREROUTING traffic for local addresses to the chain.
HookRule(customChain) ==
  << "-m", "addrtype", "--dst-type", "LOCAL", "-j", customChain >>

\* The DNAT rule of one host port and one IPv4 address of the container.
PortRule4(protocol, hostPort, address, containerPort) ==
  << "-p", protocol, "--dport", hostPort, "-j", "DNAT",
     "--to", address \o ":" \o ToString(containerPort) >>

\* The DNAT rule of one host port and one IPv6 address of the container.
PortRule6(protocol, hostPort, address, containerPort) ==
  << "-p", protocol, "--dport", hostPort, "-j", "DNAT",
     "--to", "[" \o address \o "]:" \o ToString(containerPort) >>

\* ---------------------------------------------------------------- Validate
Digits == "0123456789"

IsDigit(ch) == \E d \in 1..10 : SubSeq(Digits, d, d) = ch

DigitVal(ch) == (CHOOSE d \in 1..10 : SubSeq(Digits, d, d) = ch) - 1

\* strconv.Atoi: an optional sign, then one or more decimal digits.  Its range
\* error needs a value beyond the range of int, which no key of HostPortKeys
\* has.
Atoi(str) ==
  LET signed == Len(str) > 0 /\ SubSeq(str, 1, 1) \in {"+", "-"}
      body == IF signed THEN SubSeq(str, 2, Len(str)) ELSE str
      V[i \in 0..Len(body)] ==
        IF i = 0 THEN 0 ELSE 10 * V[i - 1] + DigitVal(SubSeq(body, i, i))
  IN  IF Len(body) = 0 \/ \E i \in 1..Len(body) : ~IsDigit(SubSeq(body, i, i))
      THEN [err |-> TRUE, val |-> 0]
      ELSE [err |-> FALSE,
            val |-> IF SubSeq(str, 1, 1) = "-" THEN 0 - V[Len(body)] ELSE V[Len(body)]]

Accept(hostPorts) == [ok |-> TRUE, err |-> "nil", hostPorts |-> hostPorts]
Reject(text) == [ok |-> FALSE, err |-> text, hostPorts |-> {}]

\* The loop over the Ports of one PortMappings, visited in keyOrder.
RECURSIVE ValidatePorts(_, _, _, _, _)
ValidatePorts(container, protocol, keyOrder, k, hostPorts) ==
  IF k > Len(keyOrder) THEN Accept(hostPorts)
  ELSE LET hPort == keyOrder[k]
           fullPort == protocol \o ":" \o hPort
       IN  IF Atoi(hPort).err
           THEN Reject("Invalid port " \o hPort \o " provided for container " \o container)
           ELSE IF fullPort \in hostPorts
                THEN Reject("Port " \o fullPort \o " has already been mapped")
                ELSE ValidatePorts(container, protocol, keyOrder, k + 1,
                                   hostPorts \cup {fullPort})

\* The loop over the PortMappings of one container.
RECURSIVE ValidateMappings(_, _, _, _, _)
ValidateMappings(container, portForwards, i, keyOrders, hostPorts) ==
  IF i > Len(portForwards) THEN Accept(hostPorts)
  ELSE IF DOMAIN portForwards[i].Ports = {}
       THEN Reject("No ports provided for container " \o container)
       ELSE LET r == ValidatePorts(container, portForwards[i].Protocol,
                                   keyOrders[i], 1, hostPorts)
            IN  IF ~r.ok THEN r
                ELSE ValidateMappings(container, portForwards, i + 1, keyOrders,
                                      r.hostPorts)

\* The loop over c.Forwards, visited in order.
RECURSIVE ValidateContainers(_, _, _, _, _)
ValidateContainers(forwards, order, j, keyOrders, hostPorts) ==
  IF j > Len(order) THEN Accept(hostPorts)
  ELSE LET r == ValidateMappings(order[j], forwards[order[j]], 1,
                                 keyOrders[order[j]], hostPorts)
       IN  IF ~r.ok THEN r
           ELSE ValidateContainers(forwards, order, j + 1, keyOrders, r.hostPorts)

\* Config.Validate: (ok, error).  order and keyOrders are the orders in which
\* the ranges over c.Forwards and over each Ports map visit their keys.
Validate(forwards, order, keyOrders) ==
  LET r == ValidateContainers(forwards, order, 1, keyOrders, {})
  IN  [ok |-> r.ok, err |-> r.err]

\* ------------------------------------------------- the packet filter tables
\* One NAT table: chain name -> the chain's rules in order.  PREROUTING is
\* built in; a rule is the argument list the program passes to iptables.
BuiltinTargets == {"DNAT", "REDIRECT", "MASQUERADE", "ACCEPT", "RETURN"}

\* A rule the host already has in PREROUTING, not owned by this program.
ForeignRule == << "-p", "tcp", "--dport", "2222", "-j", "REDIRECT", "--to-ports", "22" >>

\* The target named after "-j".
JumpTarget(rule) ==
  LET js == {i \in 1..(Len(rule) - 1) : rule[i] = "-j"}
  IN  IF js = {} THEN "" ELSE rule[(CHOOSE i \in js : TRUE) + 1]

TargetKnown(t, rule) ==
  JumpTarget(rule) \in BuiltinTargets \cup DOMAIN t

Referenced(t, chain) ==
  \E c \in DOMAIN t : \E i \in 1..Len(t[c]) : JumpTarget(t[c][i]) = chain

FirstIndex(rules, rule) ==
  CHOOSE i \in 1..Len(rules) :
    rules[i] = rule /\ \A j \in 1..(i - 1) : rules[j] # rule

RemoveAt(rules, i) == SubSeq(rules, 1, i - 1) \o SubSeq(rules, i + 1, Len(rules))

InsertAt(rules, pos, rule) ==
  SubSeq(rules, 1, pos - 1) \o << rule >> \o SubSeq(rules, pos, Len(rules))

Without(t, chain) == [c \in DOMAIN t \ {chain} |-> t[c]]

Fail(t) == [err |-> TRUE, t |-> t]
Done(t) == [err |-> FALSE, t |-> t]

\* NewChain that succeeds on a chain that exists.
NewChainTolerant(t, chain) ==
  IF chain \in DOMAIN t THEN Done(t) ELSE Done(t @@ (chain :> <<>>))

\* iptables -N
NewChain(t, chain) ==
  IF chain \in DOMAIN t THEN Fail(t) ELSE Done(t @@ (chain :> <<>>))

\* iptables -I chain pos rule
Insert(t, chain, pos, rule) ==
  IF chain \notin DOMAIN t \/ ~TargetKnown(t, rule) \/ pos > Len(t[chain]) + 1
  THEN Fail(t)
  ELSE Done([t EXCEPT ![chain] = InsertAt(@, pos, rule)])

\* iptables -A chain rule
Append_(t, chain, rule) ==
  IF chain \notin DOMAIN t \/ ~TargetKnown(t, rule)
  THEN Fail(t)
  ELSE Done([t EXCEPT ![chain] = Append(@, rule)])

\* iptables -D chain rule: removes the first matching rule
Delete(t, chain, rule) ==
  IF chain \notin DOMAIN t \/ \A i \in 1..Len(t[chain]) : t[chain][i] # rule
  THEN Fail(t)
  ELSE Done([t EXCEPT ![chain] = RemoveAt(@, FirstIndex(@, rule))])

\* iptables -N, then -F when the chain was there already
ClearChain(t, chain) ==
  IF chain \notin DOMAIN t THEN Done(t @@ (chain :> <<>>))
  ELSE Done([t EXCEPT ![chain] = <<>>])

\* iptables -X
DeleteChain(t, chain) ==
  IF chain \notin DOMAIN t \/ t[chain] # <<>> \/ Referenced(t, chain)
  THEN Fail(t)
  ELSE Done(Without(t, chain))

\* One backend call as the program issues it.  checked: the program tests
\* the returned error and returns it; otherwise the error is dropped.
Call(fn, v, chain, rule, checked) ==
  [fn |-> fn, v |-> v, chain |-> chain, rule |-> rule, checked |-> checked]

\* The effect of a call on the tables of both IP versions.
Exec(call, tables) ==
  LET t == tables[call.v]
      r == CASE call.fn = "New"         -> Done(t)
             [] call.fn = "NewChain"    -> NewChain(t, call.chain)
             [] call.fn = "Insert"      -> Insert(t, call.chain, 1, call.rule)
             [] call.fn = "Append"      -> Append_(t, call.chain, call.rule)
             [] call.fn = "Delete"      -> Delete(t, call.chain, call.rule)
             [] call.fn = "ClearChain"  -> ClearChain(t, call.chain)
             [] call.fn = "DeleteChain" -> DeleteChain(t, call.chain)
  IN  [err |-> r.err, tables |-> [tables EXCEPT ![call.v] = r.t]]

\* Runs calls[i..] in program order.  A call whose index is in faults fails
\* in the backend without touching the tables.  The first failing checked
\* call ends the run with an error; log[k] tells whether call k succeeded.
RECURSIVE Run(_, _, _, _, _)
Run(calls, i, faults, tables, log) ==
  IF i > Len(calls) THEN [err |-> FALSE, tables |-> tables, log |-> log]
  ELSE LET r == IF i \in faults THEN [err |-> TRUE, tables |-> tables]
                ELSE Exec(calls[i], tables)
       IN  IF r.err /\ calls[i].checked
           THEN [err |-> TRUE, tables |-> r.tables, log |-> Append(log, FALSE)]
           ELSE Run(calls, i + 1, faults, r.tables, Append(log, ~r.err))

\* ------------------------------------------------------------ the LXD side
\* The addresses LXD reports for the interfaces of a running container.
AddressOf ==
  [ a |-> [inet |-> "10.0.3.5", inet6 |-> "fd42::5"],
    b |-> [inet |-> "10.0.3.6", inet6 |-> "fd42::6"] ]

\* state.Network of a running container whose eth0 has addresses of the
\* families fams; of a stopped container the map is empty.
NetworkOf(container, fams) ==
  ("lo" :> << [Family |-> "inet", Address |-> "127.0.0.1"],
              [Family |-> "inet6", Address |-> "::1"] >>)
  @@ ("eth0" :> (IF "inet" \in fams
                 THEN << [Family |-> "inet", Address |-> AddressOf[container].inet] >>
                 ELSE <<>>)
             \o (IF "inet6" \in fams
                 THEN << [Family |-> "inet6", Address |-> AddressOf[container].inet6] >>
                 ELSE <<>>))

NoNetwork == << >>

\* The address families eth0 of a running container may carry.
AddressSets ==
  [ a |-> { {"inet"}, {"inet", "inet6"} },
    b |-> { {"inet"} } ]

Networks(container) ==
  {NoNetwork} \cup {NetworkOf(container, fams) : fams \in AddressSets[container]}

\* ------------------------------------------------------- ForwardContainer
SelectFamily(addresses, family) ==
  LET F[i \in 0..Len(addresses)] ==
        IF i = 0 THEN <<>>
        ELSE IF addresses[i].Family = family
             THEN Append(F[i - 1], addresses[i].Address)
             ELSE F[i - 1]
  IN  F[Len(addresses)]

\* The addresses of one family collected from the eth* / enp* interfaces,
\* visiting state.Network in the order ifOrder.
CollectAddresses(net, ifOrder, family) ==
  Flatten([i \in 1..Len(ifOrder) |->
            IF Contains(ifOrder[i], "eth") \/ Contains(ifOrder[i], "enp")
            THEN SelectFamily(net[ifOrder[i]], family)
            ELSE <<>>])

\* PortCalls with the IPv4 rules appended in both tables.
PortCallsBothTables(customChain, protocol, hostPort, containerPort, ip4Addresses, ip6Addresses) ==
  [i \in 1..Len(ip4Addresses) |->
     Call("Append", IPv4, customChain,
          PortRule4(protocol, hostPort, ip4Addresses[i], containerPort), FALSE)]
  \o
  [i \in 1..Len(ip4Addresses) |->
     Call("Append", IPv6, customChain,
          PortRule4(protocol, hostPort, ip4Addresses[i], containerPort), FALSE)]
  \o
  [i \in 1..Len(ip6Addresses) |->
     Call("Append", IPv6, customChain,
          PortRule6(protocol, hostPort, ip6Addresses[i], containerPort), FALSE)]

\* The Append calls of one host port: IPv4 addresses, then IPv6 addresses.
PortCalls(customChain, protocol, hostPort, containerPort, ip4Addresses, ip6Addresses) ==
  [i \in 1..Len(ip4Addresses) |->
     Call("Append", IPv4, customChain,
          PortRule4(protocol, hostPort, ip4Addresses[i], containerPort), FALSE)]
  \o
  [i \in 1..Len(ip6Addresses) |->
     Call("Append", IPv6, customChain,
          PortRule6(protocol, hostPort, ip6Addresses[i], containerPort), FALSE)]

\* The Append calls of one PortMappings, visiting its Ports in keyOrder.
MappingCalls(customChain, portForwards, keyOrder, ip4Addresses, ip6Addresses) ==
  Flatten([k \in 1..Len(keyOrder) |->
            PortCalls(customChain, portForwards.Protocol, keyOrder[k],
                      portForwards.Ports[keyOrder[k]], ip4Addresses, ip6Addresses)])

\* The backend calls ForwardContainer issues, in program order.
ForwardCalls(container, ip4Addresses, ip6Addresses, keyOrders) ==
  LET customChain == getChain(container)
  IN  << Call("New", IPv4, "", <<>>, TRUE),
         Call("New", IPv6, "", <<>>, TRUE),
         Call("NewChain", IPv4, customChain, <<>>, TRUE),
         Call("NewChain", IPv6, customChain, <<>>, TRUE),
         Call("Insert", IPv4, "PREROUTING", HookRule(customChain), TRUE),
         Call("Insert", IPv6, "PREROUTING", HookRule(customChain), TRUE) >>
      \o Flatten([i \in 1..Len(Forwards[container]) |->
                   MappingCalls(customChain, Forwards[container][i], keyOrders[i],
                                ip4Addresses, ip6Addresses)])

\* What one ForwardContainer call meets: whether ContainerState fails (apiErr)
\* and otherwise the Network it returns (net), the orders in which Go ranges
\* over state.Network (ifOrder) and over each Ports map (keyOrders), and the
\* backend calls that fail (faults, by position in ForwardCalls).
ForwardInput(apiErr, net, ifOrder, keyOrders, faults) ==
  [apiErr |-> apiErr, net |-> net, ifOrder |-> ifOrder, keyOrders |-> keyOrders,
   faults |-> faults]

\* ForwardContainer that goes on after a ContainerState error.
ForwardContainerIgnoringStateError(container, inp, tbl) ==
  IF container \notin DOMAIN Forwards
  THEN [err |-> TRUE, tables |-> tbl, calls |-> <<>>, log |-> <<>>]
  ELSE LET keyOrders == IF inp.apiErr
                        THEN [i \in 1..Len(Forwards[container]) |-> <<>>]
                        ELSE inp.keyOrders
           calls == ForwardCalls(container,
                                 CollectAddresses(inp.net, inp.ifOrder, "inet"),
                                 CollectAddresses(inp.net, inp.ifOrder, "inet6"),
                                 keyOrders)
           r == Run(calls, 1, inp.faults, tbl, <<>>)
       IN  [err |-> r.err, tables |-> r.tables, calls |-> calls, log |-> r.log]

\* ForwardContainer: the error it returns, the tables it leaves, the backend
\* calls it issued and which of them succeeded.
ForwardContainer(container, inp, tbl) ==
  IF container \notin DOMAIN Forwards \/ inp.apiErr
  THEN [err |-> TRUE, tables |-> tbl, calls |-> <<>>, log |-> <<>>]
  ELSE LET calls == ForwardCalls(container,
                                 CollectAddresses(inp.net, inp.ifOrder, "inet"),
                                 CollectAddresses(inp.net, inp.ifOrder, "inet6"),
                                 inp.keyOrders)
           r == Run(calls, 1, inp.faults, tbl, <<>>)
       IN  [err |-> r.err, tables |-> r.tables, calls |-> calls, log |-> r.log]

\* ------------------------------------------------------- ReverseContainer
\* ReverseCalls without the IPv6 chain removal.
ReverseCallsV4ChainOnly(container) ==
  LET customChain == getChain(container)
  IN  << Call("New", IPv4, "", <<>>, TRUE),
         Call("New", IPv6, "", <<>>, TRUE),
         Call("Delete", IPv4, "PREROUTING", HookRule(customChain), TRUE),
         Call("Delete", IPv6, "PREROUTING", HookRule(customChain), TRUE),
         Call("ClearChain", IPv4, customChain, <<>>, FALSE),
         Call("DeleteChain", IPv4, customChain, <<>>, FALSE) >>

\* ReverseCalls with the errors of the two Delete calls dropped.
ReverseCallsUncheckedDelete(container) ==
  LET customChain == getChain(container)
  IN  << Call("New", IPv4, "", <<>>, TRUE),
         Call("New", IPv6, "", <<>>, TRUE),
         Call("Delete", IPv4, "PREROUTING", HookRule(customChain), FALSE),
         Call("Delete", IPv6, "PREROUTING", HookRule(customChain), FALSE),
         Call("ClearChain", IPv4, customChain, <<>>, FALSE),
         Call("DeleteChain", IPv4, customChain, <<>>, FALSE),
         Call("ClearChain", IPv6, customChain, <<>>, FALSE),
         Call("DeleteChain", IPv6, customChain, <<>>, FALSE) >>

\* The backend calls of ReverseContainer: the hook rule is deleted in both
\* tables, then the chain is cleared and deleted in both.
ReverseCalls(container) ==
  LET customChain == getChain(container)
  IN  << Call("New", IPv4, "", <<>>, TRUE),
         Call("New", IPv6, "", <<>>, TRUE),
         Call("Delete", IPv4, "PREROUTING", HookRule(customChain), TRUE),
         Call("Delete", IPv6, "PREROUTING", HookRule(customChain), TRUE),
         Call("ClearChain", IPv4, customChain, <<>>, FALSE),
         Call("DeleteChain", IPv4, customChain, <<>>, FALSE),
         Call("ClearChain", IPv6, customChain, <<>>, FALSE),
         Call("DeleteChain", IPv6, customChain, <<>>, FALSE) >>

ReverseContainer(container, faults, tbl) ==
  LET calls == ReverseCalls(container)
      r == Run(calls, 1, faults, tbl, <<>>)
  IN  [err |-> r.err, tables |-> r.tables, calls |-> calls, log |-> r.log]

\* ------------------------------------------------------ Forward and Reverse
\* Forward: ForwardContainer for every container of the config, in the order
\* the range over f.Config.Forwards visits them; inps[c] is what the call
\* for c meets.  errs collects the containers whose call returned an error.
RECURSIVE ForwardEach(_, _, _, _, _)
ForwardEach(order, i, inps, tbl, errs) ==
  IF i > Len(order) THEN [err |-> errs # <<>>, errs |-> errs, tables |-> tbl]
  ELSE LET r == ForwardContainer(order[i], inps[order[i]], tbl)
       IN  ForwardEach(order, i + 1, inps, r.tables,
                       IF r.err THEN Append(errs, order[i]) ELSE errs)

\* Reverse: ReverseContainer for every container of the config.
RECURSIVE ReverseEach(_, _, _, _, _)
ReverseEach(order, i, faults, tbl, errs) ==
  IF i > Len(order) THEN [err |-> errs # <<>>, errs |-> errs, tables |-> tbl]
  ELSE LET r == ReverseContainer(order[i], faults[order[i]], tbl)
       IN  ReverseEach(order, i + 1, faults, r.tables,
                       IF r.err THEN Append(errs, order[i]) ELSE errs)

\* --------------------------------------------------------------- the state
VARIABLES
  tables,     \* the NAT table of each IP version: chain name -> rules
  network,    \* LXD: state.Network of each configured container
  queue,      \* events LXD has sent to the monitor, not yet handled
  daemon,     \* the daemon process: "off", "watching" or "crashed"
  clean,      \* since the daemon started on untouched tables: no failed
              \* backend or LXD call and no call from outside the watcher
  lastEvent,  \* the last ContainerStart / ContainerStop handled per container
  last,       \* the most recent operation of the Forwarder and its outcome
  snap        \* the tables before the latest ForwardContainer call, kept when
              \* that call succeeded for a container that had no chain and no
              \* hook, until a call other than the first ReverseContainer of
              \* the same container follows

VARIABLES
  cfg,        \* the Config handed to Validate
  verdict     \* what Validate returned for it, once it has run

validation == << cfg, verdict >>

VARIABLES
  failed      \* the container whose call by the handler most recently
              \* returned an error, "" when none has

VARIABLES
  chainArgs,  \* two (container, direction) pairs handed to getChain
  chainNames  \* the names getChain returned for them, once it has run

VARIABLES
  running,    \* per process, the ForwardContainer / ReverseContainer call it
              \* is in: its backend calls and the index of the next one
  pending,    \* the Forward / Reverse of the command line process: what it
              \* runs and the containers it has still to visit
  solo,       \* per container, the tables of a run from the same start in
              \* which only the calls for that container are made
  agree       \* every backend call so far returned in the run of solo what
              \* it returned on tables

vars == << tables, network, queue, daemon, clean, lastEvent, last, snap, cfg, verdict,
           failed, chainArgs, chainNames, running, pending, solo, agree >>

Procs == {"command", "watcher"}
NoJob == [op |-> "none", container |-> "", calls |-> <<>>, i |-> 0]
NoPending == [op |-> "none", rest |-> <<>>]

NoArgs == << "", Dst, "", Dst >>

NoVerdict == [ok |-> FALSE, err |-> "not run"]

InitTable == ("PREROUTING" :> << ForeignRule >>)
InitTables == [v \in IPVersions |-> InitTable]

NoCall == [op |-> "none", container |-> "", err |-> FALSE, errs |-> <<>>,
           healthy |-> TRUE, changed |-> FALSE, log |-> <<>>]
NoSnap == << >>

\* What is observed of an operation: the error it returned (for Forward and
\* Reverse also the containers it names), whether the backend and LXD were
\* healthy during it, whether it changed the tables, and for a single
\* ForwardContainer / ReverseContainer which of its backend calls succeeded.
Label(op, container, r, errs, healthy, before, log) ==
  [op |-> op, container |-> container, err |-> r.err, errs |-> errs,
   healthy |-> healthy, changed |-> (r.tables # before), log |-> log]

\* ------------------------------------------------- what the tables hold
Rules(tbl, v, chain) == IF chain \in DOMAIN tbl[v] THEN tbl[v][chain] ELSE <<>>

ChainExists(tbl, v, container) == getChain(container) \in DOMAIN tbl[v]

\* The number of hook rules of the container in PREROUTING.
HookCount(tbl, v, container) ==
  Cardinality({i \in 1..Len(tbl[v]["PREROUTING"]) :
                 tbl[v]["PREROUTING"][i] = HookRule(getChain(container))})

\* Absent: no hook and no custom chain in either IP version.
Absent(tbl, container) ==
  \A v \in IPVersions :
     ~ChainExists(tbl, v, container) /\ HookCount(tbl, v, container) = 0

Range(seq) == {seq[i] : i \in 1..Len(seq)}

\* The addresses LXD reports now for the eth* / enp* interfaces.
LiveAddresses(container, family) ==
  Range(CollectAddresses(network[container],
                         CHOOSE o \in Perms(DOMAIN network[container]) : TRUE, family))

\* The DNAT rules the config and the live addresses call for.
ExpectedRules(container, v) ==
  LET pfs == Forwards[container]
  IN  UNION {UNION {{IF v = IPv4
                     THEN << "-p", pfs[i].Protocol, "--dport", k, "-j", "DNAT", "--to",
                             addr \o ":" \o ToString(pfs[i].Ports[k]) >>
                     ELSE << "-p", pfs[i].Protocol, "--dport", k, "-j", "DNAT", "--to",
                             "[" \o addr \o "]:" \o ToString(pfs[i].Ports[k]) >> :
                       addr \in LiveAddresses(container, IF v = IPv4 THEN "inet" ELSE "inet6")} :
                    k \in DOMAIN pfs[i].Ports} :
             i \in 1..Len(pfs)}

\* Active: the chain exists and is hooked wherever the container has live
\* addresses, and at least somewhere, and holds every rule called for.
Active(tbl, container) ==
  /\ \E v \in IPVersions :
        ChainExists(tbl, v, container) /\ HookCount(tbl, v, container) >= 1
  /\ \A v \in IPVersions :
        ExpectedRules(container, v) # {} =>
          /\ ChainExists(tbl, v, container)
          /\ HookCount(tbl, v, container) >= 1
          /\ ExpectedRules(container, v) \subseteq Range(Rules(tbl, v, getChain(container)))

\* ------------------------------------------------------------ call inputs
\* The orders in which the Ports maps of a container may be visited.
KeyOrders(container) ==
  IF container \notin DOMAIN Forwards THEN {<<>>}
  ELSE LET pfs == Forwards[container]
       IN  {ko \in [1..Len(pfs) -> UNION {Perms(DOMAIN pfs[j].Ports) : j \in 1..Len(pfs)}] :
              \A i \in 1..Len(pfs) : ko[i] \in Perms(DOMAIN pfs[i].Ports)}

\* The orders in which state.Network may be visited, one for each list of
\* addresses they can produce.
IfOrders(net) ==
  LET all == Perms(DOMAIN net)
      lists(o) == << CollectAddresses(net, o, "inet"), CollectAddresses(net, o, "inet6") >>
  IN  {o \in all : o = CHOOSE p \in all : lists(p) = lists(o)}

\* The calls that can fail in the backend: every rule or chain operation.
\* At most one of them fails during one ForwardContainer / ReverseContainer.
FaultSets(calls) ==
  {{}} \cup {{i} : i \in {j \in 1..Len(calls) : calls[j].fn # "New"}}

\* Everything a ForwardContainer call for the container can meet now.
ForwardInputs(container) ==
  LET net == IF container \in DOMAIN network THEN network[container] ELSE NoNetwork
  IN  {ForwardInput(TRUE, NoNetwork, <<>>, <<>>, {})}
      \cup
      UNION {UNION {{ForwardInput(FALSE, net, o, ko, F) :
                       F \in FaultSets(IF container \in DOMAIN Forwards
                                       THEN ForwardCalls(container,
                                              CollectAddresses(net, o, "inet"),
                                              CollectAddresses(net, o, "inet6"), ko)
                                       ELSE <<>>)} :
                     ko \in KeyOrders(container)} :
             o \in IfOrders(net)}

HealthyInput(inp) == ~inp.apiErr /\ inp.faults = {}

Init ==
  /\ tables = InitTables
  /\ network \in [Containers -> UNION {Networks(c) : c \in Containers}]
  /\ \A c \in Containers : network[c] \in Networks(c)
  /\ network["b"] # NoNetwork
  /\ queue = <<>>
  /\ daemon = "off"
  /\ clean = FALSE
  /\ lastEvent = [c \in Names |-> "none"]
  /\ last = NoCall
  /\ snap = NoSnap
  /\ cfg = Forwards
  /\ verdict = NoVerdict
  /\ failed = ""
  /\ chainArgs = NoArgs
  /\ chainNames = << >>
  /\ running = [p \in Procs |-> NoJob]
  /\ pending = NoPending
  /\ solo = [c \in Containers |-> InitTables]
  /\ agree = TRUE

\* ---------------------------------------------------- library entry points
\* The tables and the observers after a ForwardContainer call with result r.
AfterForwardContainer(container, inp, r) ==
  /\ tables' = r.tables
  /\ last' = Label("ForwardContainer", container, r,
                   IF r.err THEN << container >> ELSE <<>>,
                   HealthyInput(inp), tables, r.log)
  /\ snap' = IF Absent(tables, container) /\ ~r.err THEN tables ELSE NoSnap

\* The tables and the observers after a ReverseContainer call with result r.
AfterReverseContainer(container, faults, r) ==
  /\ tables' = r.tables
  /\ last' = Label("ReverseContainer", container, r,
                   IF r.err THEN << container >> ELSE <<>>,
                   faults = {}, tables, r.log)
  /\ snap' = IF last.op = "ForwardContainer" /\ last.container = container
             THEN snap ELSE NoSnap

\* Forwarder.ForwardContainer(container)
CallForwardContainer(container) ==
  \E inp \in ForwardInputs(container) :
  \E r \in {ForwardContainer(container, inp, tables)} :
    /\ AfterForwardContainer(container, inp, r)
    /\ UNCHANGED << network, queue, daemon, clean, lastEvent, cfg, verdict, chainArgs, chainNames, running, pending, solo, agree, failed >>

\* Forwarder.ReverseContainer(container)
CallReverseContainer(container) ==
  \E faults \in FaultSets(ReverseCalls(container)) :
  \E r \in {ReverseContainer(container, faults, tables)} :
    /\ AfterReverseContainer(container, faults, r)
    /\ UNCHANGED << network, queue, daemon, clean, lastEvent, cfg, verdict, chainArgs, chainNames, running, pending, solo, agree, failed >>

\* The inputs of the ForwardContainer calls of one Forward with a healthy
\* LXD and backend: one per container.
HealthyInputs ==
  LET ok == [c \in Containers |-> {inp \in ForwardInputs(c) : HealthyInput(inp)}]
  IN  {h \in [Containers -> UNION {ok[c] : c \in Containers}] :
         \A c \in Containers : h[c] \in ok[c]}

\* Forwarder.Forward(): at most one LXD or backend call fails during it, in
\* the ForwardContainer call of the container `hit`.
CallForward ==
  \E order \in Perms(Containers), h \in HealthyInputs, hit \in Containers :
  \E inp \in ForwardInputs(hit) :
    \E r \in {ForwardEach(order, 1, [h EXCEPT ![hit] = inp], tables, <<>>)} :
        /\ tables' = r.tables
        /\ last' = Label("Forward", "", r, r.errs, HealthyInput(inp), tables, <<>>)
        /\ snap' = NoSnap
        /\ UNCHANGED << network, queue, daemon, clean, lastEvent, cfg, verdict, chainArgs, chainNames, running, pending, solo, agree, failed >>

\* Forwarder.Reverse(): at most one backend call fails during it, in the
\* ReverseContainer call of the container `hit`.
CallReverse ==
  \E order \in Perms(Containers), hit \in Containers :
  \E F \in FaultSets(ReverseCalls(hit)) :
    \E r \in {ReverseEach(order, 1, [c \in Containers |-> IF c = hit THEN F ELSE {}],
                            tables, <<>>)} :
        /\ tables' = r.tables
        /\ last' = Label("Reverse", "", r, r.errs, F = {}, tables, <<>>)
        /\ snap' = NoSnap
        /\ UNCHANGED << network, queue, daemon, clean, lastEvent, cfg, verdict, chainArgs, chainNames, running, pending, solo, agree, failed >>

\* ------------------------------------------------------------- the daemon
\* An event as the handler reads it: the JSON type of data["metadata"], of
\* metadata["context"], and the type and value of context["container"] and
\* metadata["message"].  A key that is absent has type "missing".
Str(val) == [type |-> "string", val |-> val]
Missing == [type |-> "missing", val |-> ""]
Number == [type |-> "number", val |-> ""]

Event(metadata, context, container, message) ==
  [metadata |-> metadata, context |-> context, container |-> container,
   message |-> message]

Lifecycle(container, message) == Event("map", "map", Str(container), Str(message))

\* Events of the feed other than the start and stop of a configured container.
OtherEvents ==
  { Lifecycle("c", ContainerStarted),
    Lifecycle("c", ContainerStopped),
    Event("map", "missing", Missing, Str("OperationCreate")),
    Event("missing", "missing", Missing, Missing),
    Event("map", "number", Missing, Str(ContainerStarted)),
    Event("map", "map", Number, Str(ContainerStarted)),
    Event("map", "map", Str("a"), Missing),
    Event("map", "map", Str("a"), Number) }

\* Handler without the lookup of the container in f.Forwards.
HandlerAnyContainer(ev) ==
  IF ev.metadata # "map" \/ ev.context \notin {"map", "missing"}
  THEN [panic |-> TRUE, call |-> "", container |-> ""]
  ELSE IF ev.context = "map" /\ ev.container.type \notin {"string", "missing"}
       THEN [panic |-> TRUE, call |-> "", container |-> ""]
  ELSE LET container == IF ev.context = "map" /\ ev.container.type = "string"
                        THEN ev.container.val ELSE ""
       IN  IF ev.message.type \notin {"string", "missing"}
           THEN [panic |-> TRUE, call |-> "", container |-> container]
           ELSE LET message == IF ev.message.type = "string"
                               THEN ev.message.val ELSE ""
                IN  [panic |-> FALSE,
                     call |-> CASE message = ContainerStarted -> "ForwardContainer"
                                [] message = ContainerStopped -> "ReverseContainer"
                                [] OTHER -> "",
                     container |-> container]

\* The handler of Watch up to its call: a failed type assertion panics;
\* otherwise the handler calls ForwardContainer, ReverseContainer or nothing.
Handler(ev) ==
  IF ev.metadata # "map" THEN [panic |-> TRUE, call |-> "", container |-> ""]
  ELSE IF ev.context \notin {"map", "missing"}
       THEN [panic |-> TRUE, call |-> "", container |-> ""]
  ELSE IF ev.context = "map" /\ ev.container.type \notin {"string", "missing"}
       THEN [panic |-> TRUE, call |-> "", container |-> ""]
  ELSE LET container == IF ev.context = "map" /\ ev.container.type = "string"
                        THEN ev.container.val ELSE ""
       IN  IF container \notin DOMAIN Forwards
           THEN [panic |-> FALSE, call |-> "", container |-> container]
           ELSE IF ev.message.type \notin {"string", "missing"}
                THEN [panic |-> TRUE, call |-> "", container |-> container]
                ELSE LET message == IF ev.message.type = "string"
                                    THEN ev.message.val ELSE ""
                     IN  [panic |-> FALSE,
                          call |-> CASE message = ContainerStarted -> "ForwardContainer"
                                     [] message = ContainerStopped -> "ReverseContainer"
                                     [] OTHER -> "",
                          container |-> container]

\* A handler that gives up on the error of its call.
AfterCallStopOnError(err) == IF err THEN "crashed" ELSE "watching"

\* The daemon after the handler's call to ForwardContainer or
\* ReverseContainer returned err: the handler drops the result and returns.
AfterCall(err) == "watching"

\* What a ForwardContainer call of the daemon can meet: the backend works,
\* the ContainerState call to LXD may fail.
DaemonInputs(container) ==
  {inp \in ForwardInputs(container) : inp.faults = {}}

\* main in daemon mode: Forward(), then Watch() subscribes to the events.
DaemonStart ==
  /\ daemon # "watching"
  /\ \E order \in Perms(Containers), h \in HealthyInputs, hit \in Containers :
     \E inp \in DaemonInputs(hit) :
     \E r \in {ForwardEach(order, 1, [h EXCEPT ![hit] = inp], tables, <<>>)} :
        /\ tables' = r.tables
        /\ last' = Label("Forward", "", r, r.errs, HealthyInput(inp), tables, <<>>)
        /\ clean' = (tables = InitTables /\ HealthyInput(inp))
  /\ snap' = NoSnap
  /\ daemon' = "watching"
  /\ queue' = <<>>
  /\ lastEvent' = [c \in Names |-> "none"]
  /\ failed' = ""
  /\ UNCHANGED << network, cfg, verdict, chainArgs, chainNames, running, pending, solo, agree >>

\* Monitor hands the next event to the handler.
Handle ==
  /\ daemon = "watching"
  /\ queue # <<>>
  /\ UNCHANGED << cfg, verdict, chainArgs, chainNames, running, pending, solo, agree >>
  /\ LET h == Handler(Head(queue))
     IN  \/ /\ h.panic
            /\ daemon' = "crashed"
            /\ queue' = <<>>
            /\ clean' = FALSE
            /\ UNCHANGED << tables, network, lastEvent, last, snap, failed >>
         \/ /\ ~h.panic /\ h.call = ""
            /\ queue' = Tail(queue)
            /\ lastEvent' =
                 IF h.container \in Unconfigured
                    /\ Head(queue).message \in {Str(ContainerStarted), Str(ContainerStopped)}
                 THEN [lastEvent EXCEPT ![h.container] = Head(queue).message.val]
                 ELSE lastEvent
            /\ UNCHANGED << tables, network, daemon, clean, last, snap, failed >>
         \/ /\ ~h.panic /\ h.call = "ForwardContainer"
            /\ \E inp \in DaemonInputs(h.container) :
               \E r \in {ForwardContainer(h.container, inp, tables)} :
                  /\ AfterForwardContainer(h.container, inp, r)
                  /\ clean' = (clean /\ HealthyInput(inp))
                  /\ daemon' = AfterCall(r.err)
                  /\ failed' = IF r.err THEN h.container ELSE failed
            /\ queue' = Tail(queue)
            /\ lastEvent' = [lastEvent EXCEPT ![h.container] = ContainerStarted]
            /\ UNCHANGED network
         \/ /\ ~h.panic /\ h.call = "ReverseContainer"
            /\ \E r \in {ReverseContainer(h.container, {}, tables)} :
                  /\ AfterReverseContainer(h.container, {}, r)
                  /\ clean' = clean
                  /\ daemon' = AfterCall(r.err)
                  /\ failed' = IF r.err THEN h.container ELSE failed
            /\ queue' = Tail(queue)
            /\ lastEvent' = [lastEvent EXCEPT ![h.container] = ContainerStopped]
            /\ UNCHANGED network

\* ------------------------------------------------------------ environment
\* The feed with one more event, when a daemon is subscribed.
Emit(ev) ==
  IF daemon = "watching"
  THEN Len(queue) < MaxQueue /\ queue' = Append(queue, ev)
  ELSE UNCHANGED queue

\* LXD starts a stopped container; its eth0 gets addresses.
LxdStart(container) ==
  /\ network[container] = NoNetwork
  /\ \E net \in Networks(container) \ {NoNetwork} :
        network' = [network EXCEPT ![container] = net]
  /\ Emit(Lifecycle(container, ContainerStarted))
  /\ UNCHANGED << tables, daemon, clean, lastEvent, last, snap, cfg, verdict, chainArgs, chainNames, running, pending, solo, agree, failed >>

\* LXD stops a running container; its interfaces go away.
LxdStop(container) ==
  /\ network[container] # NoNetwork
  /\ network' = [network EXCEPT ![container] = NoNetwork]
  /\ Emit(Lifecycle(container, ContainerStopped))
  /\ UNCHANGED << tables, daemon, clean, lastEvent, last, snap, cfg, verdict, chainArgs, chainNames, running, pending, solo, agree, failed >>

\* LXD sends any other event.
LxdOther(ev) ==
  /\ daemon = "watching"
  /\ Len(queue) < MaxQueue
  /\ queue' = Append(queue, ev)
  /\ UNCHANGED << tables, network, daemon, clean, lastEvent, last, snap, cfg, verdict, chainArgs, chainNames, running, pending, solo, agree, failed >>

InitDaemon ==
  /\ tables = InitTables
  /\ network \in [Containers -> UNION {Networks(c) : c \in Containers}]
  /\ \A c \in Containers : network[c] \in Networks(c)
  /\ queue = <<>>
  /\ daemon = "off"
  /\ clean = FALSE
  /\ lastEvent = [c \in Names |-> "none"]
  /\ last = NoCall
  /\ snap = NoSnap
  /\ cfg = Forwards
  /\ verdict = NoVerdict
  /\ failed = ""
  /\ chainArgs = NoArgs
  /\ chainNames = << >>
  /\ running = [p \in Procs |-> NoJob]
  /\ pending = NoPending
  /\ solo = [c \in Containers |-> InitTables]
  /\ agree = TRUE

NextDaemon ==
  \/ DaemonStart
  \/ Handle
  \/ \E container \in Containers : LxdStart(container)
  \/ \E container \in Containers : LxdStop(container)
  \/ \E ev \in OtherEvents : LxdOther(ev)

SpecDaemon == InitDaemon /\ [][NextDaemon]_vars

\* ------------------------------------------------- validating a config
\* The host port keys and the PortMappings the configs are built from.
HostPortKeys == {"80", "+80", "-1", "x"}

PortsMaps ==
  UNION {[K -> {80}] : K \in {K \in SUBSET HostPortKeys : Cardinality(K) <= MaxPorts}}

AnyPortMappings ==
  {[Protocol |-> p, Ports |-> m] : p \in {"tcp", "udp"}, m \in PortsMaps}

MappingSeqs(n) == UNION {[1..k -> AnyPortMappings] : k \in 0..n}

\* Configs of container a with up to MaxMappings PortMappings and of
\* container b with at most one.
Configs ==
  {[a |-> pa, b |-> pb] : pa \in MappingSeqs(MaxMappings), pb \in MappingSeqs(1)}

\* The orders in which the range over each Ports map of portForwards, from
\* the i-th on, may visit its keys.
RECURSIVE KeyOrderSeqs(_, _)
KeyOrderSeqs(portForwards, i) ==
  IF i > Len(portForwards) THEN {<< >>}
  ELSE {<< p >> \o rest : p \in Perms(DOMAIN portForwards[i].Ports),
                          rest \in KeyOrderSeqs(portForwards, i + 1)}

AllKeyOrders(forwards) ==
  {f \in [DOMAIN forwards -> UNION {KeyOrderSeqs(forwards[c], 1) : c \in DOMAIN forwards}] :
     \A c \in DOMAIN forwards : f[c] \in KeyOrderSeqs(forwards[c], 1)}

InitValidate ==
  /\ tables = InitTables
  /\ network = [c \in Containers |-> NoNetwork]
  /\ queue = <<>>
  /\ daemon = "off"
  /\ clean = FALSE
  /\ lastEvent = [c \in Names |-> "none"]
  /\ last = NoCall
  /\ snap = NoSnap
  /\ cfg \in Configs
  /\ verdict = NoVerdict
  /\ failed = ""
  /\ chainArgs = NoArgs
  /\ chainNames = << >>
  /\ running = [p \in Procs |-> NoJob]
  /\ pending = NoPending
  /\ solo = [c \in Containers |-> InitTables]
  /\ agree = TRUE

\* config.Validate()
RunValidate ==
  /\ verdict = NoVerdict
  /\ \E order \in Perms(DOMAIN cfg), keyOrders \in AllKeyOrders(cfg) :
        verdict' = Validate(cfg, order, keyOrders)
  /\ UNCHANGED << tables, network, queue, daemon, clean, lastEvent, last, snap, cfg, failed,
                  chainArgs, chainNames, running, pending, solo, agree >>

NextValidate == RunValidate

SpecValidate == InitValidate /\ [][NextValidate]_vars

\* --------------------------------------------------------- naming chains
\* Container names, among them names that end like a direction.
ContainerNames == {"", "a", "b", "a-", "a-dst", "a-src", "b-dst"}

InitChain ==
  /\ tables = InitTables
  /\ network = [c \in Containers |-> NoNetwork]
  /\ queue = <<>>
  /\ daemon = "off"
  /\ clean = FALSE
  /\ lastEvent = [c \in Names |-> "none"]
  /\ last = NoCall
  /\ snap = NoSnap
  /\ cfg = Forwards
  /\ verdict = NoVerdict
  /\ failed = ""
  /\ chainArgs \in ContainerNames \X Directions \X ContainerNames \X Directions
  /\ chainNames = << >>
  /\ running = [p \in Procs |-> NoJob]
  /\ pending = NoPending
  /\ solo = [c \in Containers |-> InitTables]
  /\ agree = TRUE

\* getChain of iptables.go for the first pair, for the second pair, and for
\* the first pair once more; getChain of forward.go for the two containers.
NameChains ==
  /\ chainNames = << >>
  /\ chainNames' = << getChainDir(chainArgs[1], chainArgs[2]),
                      getChainDir(chainArgs[3], chainArgs[4]),
                      getChainDir(chainArgs[1], chainArgs[2]),
                      getChain(chainArgs[1]),
                      getChain(chainArgs[3]) >>
  /\ UNCHANGED << tables, network, queue, daemon, clean, lastEvent, last, snap, cfg,
                  verdict, failed, chainArgs, running, pending, solo, agree >>

NextChain == NameChains

SpecChain == InitChain /\ [][NextChain]_vars

\* ------------------------------------------- two processes on one backend
\* The daemon's handler and a command line run of the program work on the
\* same tables; the backend runs one iptables command at a time, so their
\* backend calls interleave call by call.

\* The ForwardContainer or ReverseContainer call a process enters, with LXD
\* answering: its backend calls in program order.
Job(op, container) ==
  [op |-> op, container |-> container, i |-> 1,
   calls |-> IF op = "ReverseContainer" THEN ReverseCalls(container)
             ELSE LET inp == CHOOSE inp \in ForwardInputs(container) : HealthyInput(inp)
                  IN  ForwardCalls(container,
                                   CollectAddresses(inp.net, inp.ifOrder, "inet"),
                                   CollectAddresses(inp.net, inp.ifOrder, "inet6"),
                                   inp.keyOrders)]

\* Every container runs, with the addresses of all the families it can have.
InitInterleave ==
  /\ tables = InitTables
  /\ network = [c \in Containers |-> NetworkOf(c, UNION AddressSets[c])]
  /\ queue = <<>>
  /\ daemon = "watching"
  /\ clean = FALSE
  /\ lastEvent = [c \in Names |-> "none"]
  /\ last = NoCall
  /\ snap = NoSnap
  /\ cfg = Forwards
  /\ verdict = NoVerdict
  /\ failed = ""
  /\ chainArgs = NoArgs
  /\ chainNames = << >>
  /\ running = [p \in Procs |-> NoJob]
  /\ pending = NoPending
  /\ solo = [c \in Containers |-> InitTables]
  /\ agree = TRUE

Others ==
  << network, queue, daemon, clean, lastEvent, last, snap, cfg, verdict, failed,
     chainArgs, chainNames >>

\* main: the enable or the reverse command starts Forward() or Reverse().
CommandStart ==
  /\ pending = NoPending /\ running["command"] = NoJob
  /\ \E op \in {"ForwardContainer", "ReverseContainer"}, order \in Perms(Containers) :
        pending' = [op |-> op, rest |-> order]
  /\ UNCHANGED << tables, running, solo, agree >>
  /\ UNCHANGED Others

\* Forward / Reverse: the loop enters the call for its next container.
CommandNext ==
  /\ pending # NoPending /\ running["command"] = NoJob
  /\ IF pending.rest = <<>>
     THEN pending' = NoPending /\ UNCHANGED running
     ELSE /\ running' = [running EXCEPT !["command"] = Job(pending.op, Head(pending.rest))]
          /\ pending' = [pending EXCEPT !.rest = Tail(@)]
  /\ UNCHANGED << tables, solo, agree >>
  /\ UNCHANGED Others

\* The handler enters the call for a ContainerStart or ContainerStop event.
WatcherCall ==
  /\ running["watcher"] = NoJob
  /\ \E op \in {"ForwardContainer", "ReverseContainer"}, container \in Containers :
        running' = [running EXCEPT !["watcher"] = Job(op, container)]
  /\ UNCHANGED << tables, pending, solo, agree >>
  /\ UNCHANGED Others

\* Process p issues the next backend call of the call it is in; the backend
\* may fail it.  The same call, with the same fate in the backend, is made
\* in the run of solo for the container.
BackendCall(p) ==
  /\ running[p] # NoJob
  /\ LET j == running[p]
         call == j.calls[j.i]
     IN  \E fault \in IF call.fn = "New" THEN {FALSE} ELSE BOOLEAN :
         \E r \in {IF fault THEN [err |-> TRUE, tables |-> tables]
                   ELSE Exec(call, tables)} :
         \E rs \in {IF fault THEN [err |-> TRUE, tables |-> solo[j.container]]
                    ELSE Exec(call, solo[j.container])} :
            /\ tables' = r.tables
            /\ solo' = [solo EXCEPT ![j.container] = rs.tables]
            /\ agree' = (agree /\ (r.err = rs.err))
            /\ running' = [running EXCEPT ![p] =
                             IF (r.err /\ call.checked) \/ j.i = Len(j.calls)
                             THEN NoJob
                             ELSE [j EXCEPT !.i = @ + 1]]
  /\ UNCHANGED pending
  /\ UNCHANGED Others

NextInterleave ==
  \/ CommandStart
  \/ CommandNext
  \/ WatcherCall
  \/ \E p \in Procs : BackendCall(p)

SpecInterleave == InitInterleave /\ [][NextInterleave]_vars

\* ---------------------------------------------------------------- claims
\* C1: the daemon started on untouched tables with a healthy backend and
\* LXD, and has handled every event sent: each container whose last event
\* was ContainerStart is Active, each whose last was ContainerStop is Absent.
C1_EventsDriveState ==
  (daemon = "watching" /\ clean /\ queue = <<>>) =>
    \A c \in Containers :
       /\ lastEvent[c] = ContainerStarted => Active(tables, c)
       /\ lastEvent[c] = ContainerStopped => Absent(tables, c)

\* C2: two healthy ForwardContainer calls for the same container in a row:
\* the second returns no error and each PREROUTING chain then holds exactly
\* one hook rule of the container.
C2_ForwardTwice ==
  [][\A c \in Containers :
       ( /\ last.op = "ForwardContainer" /\ last.container = c /\ last.healthy
         /\ last'.op = "ForwardContainer" /\ last'.container = c /\ last'.healthy )
       => ( /\ ~last'.err
            /\ \A v \in IPVersions : HookCount(tables', v, c) = 1 )]_vars

\* C3: a successful ForwardContainer of a container that was Absent, followed
\* by a ReverseContainer of it on a healthy backend, leaves the tables of both
\* IP versions as they were before the ForwardContainer: the container is
\* Absent again and every other rule and chain is as before.
C3_RoundTrip ==
  (last.op = "ReverseContainer" /\ last.healthy /\ snap # NoSnap)
  => (tables = snap /\ Absent(tables, last.container))

C3_Witness ==
  /\ last.op = "ReverseContainer" /\ last.healthy /\ snap # NoSnap
  /\ last.changed /\ ~last.err
  /\ LiveAddresses(last.container, "inet") # {}

\* C4: ReverseContainer of a container that is Absent, on a healthy backend,
\* returns no error and leaves the tables unchanged.
C4_ReverseNeverForwarded ==
  [][\A c \in Containers :
       ( Absent(tables, c)
         /\ last'.op = "ReverseContainer" /\ last'.container = c /\ last'.healthy )
       => ( ~last'.err /\ tables' = tables )]_vars

\* An event with metadata, context, container or message absent or not of
\* the type the handler expects.
Malformed(ev) ==
  \/ ev.metadata # "map"
  \/ ev.context # "map"
  \/ ev.container.type # "string"
  \/ ev.message.type # "string"

\* C5: handling a malformed event leaves the daemon watching and makes no
\* call to the backend.
C5_MalformedEventDiscarded ==
  [][( /\ daemon = "watching" /\ queue # <<>> /\ Malformed(Head(queue))
       /\ Len(queue') < Len(queue) )
     => (daemon' = "watching" /\ tables' = tables /\ last' = last)]_vars

\* C6: after Forward (Reverse) the error is non-nil exactly when it names a
\* container, and every container it does not name is Active (Absent).
C6_AllPartialFailure ==
  /\ last.op \in {"Forward", "Reverse"} => (last.err <=> last.errs # <<>>)
  /\ last.op = "Forward" =>
       \A c \in Containers : c \notin Range(last.errs) => Active(tables, c)
  /\ last.op = "Reverse" =>
       \A c \in Containers : c \notin Range(last.errs) => Absent(tables, c)

\* C7: when a backend call of ForwardContainer fails, ForwardContainer
\* returns an error and that call is the last one it issues; what earlier
\* calls installed stays.
C7_AbortOnFailure ==
  last.op = "ForwardContainer" =>
    \A i \in 1..Len(last.log) :
       ~last.log[i] =>
         /\ last.err
         /\ i = Len(last.log)
         /\ (\E j \in 3..(i - 1) : last.log[j]) => last.changed

\* C8: after a ForwardContainer that failed having changed the tables, a
\* ReverseContainer and then a ForwardContainer of the same container, both
\* on a healthy backend and LXD, leave the container Active.
C8_Converge ==
  [][\A c \in Containers :
       ( /\ last.op = "ForwardContainer" /\ last.container = c
         /\ last.err /\ last.changed
         /\ last'.op = "ReverseContainer" /\ last'.container = c /\ last'.healthy )
       => \A inp \in ForwardInputs(c) :
             HealthyInput(inp) =>
               /\ ~ForwardContainer(c, inp, tables').err
               /\ Active(ForwardContainer(c, inp, tables').tables, c)]_vars

\* A container with IPv4 addresses and no IPv6 address has just been
\* forwarded, from Absent, on a healthy backend and LXD.
ForwardedV4Only(c) ==
  /\ last.op = "ForwardContainer" /\ last.container = c
  /\ ~last.err /\ last.healthy /\ snap # NoSnap
  /\ LiveAddresses(c, "inet") # {} /\ LiveAddresses(c, "inet6") = {}

\* The IPv4 side: one hook rule, and in the chain exactly one DNAT rule for
\* each host port and IPv4 address.
V4Installed(c) ==
  /\ HookCount(tables, IPv4, c) = 1
  /\ Range(Rules(tables, IPv4, getChain(c))) = ExpectedRules(c, IPv4)
  /\ Len(Rules(tables, IPv4, getChain(c))) = Cardinality(ExpectedRules(c, IPv4))
  /\ ExpectedRules(c, IPv4) # {}

Occurrences(forwards) ==
  {o \in (DOMAIN forwards) \X (1..MaxMappings) \X HostPortKeys :
     /\ o[2] <= Len(forwards[o[1]])
     /\ o[3] \in DOMAIN forwards[o[1]][o[2]].Ports}

IsNumber(str) ==
  \E n \in 1..Len(str) :
     /\ SubSeq(str, 1, Len(str) - n) \in {"", "+", "-"}
     /\ \A i \in (Len(str) - n + 1)..Len(str) : SubSeq(str, i, i) \in
          {"0", "1", "2", "3", "4", "5", "6", "7", "8", "9"}

PortNumber == [k \in HostPortKeys |->
                 CASE k = "80" -> 80 [] k = "+80" -> 80 [] k = "-1" -> -1 [] OTHER -> 0]

DuplicateHostPort(forwards) ==
  \E o1, o2 \in Occurrences(forwards) :
     /\ o1 # o2
     /\ forwards[o1[1]][o1[2]].Protocol = forwards[o2[1]][o2[2]].Protocol
     /\ IsNumber(o1[3]) /\ IsNumber(o2[3])
     /\ PortNumber[o1[3]] = PortNumber[o2[3]]

WellFormed(forwards) ==
  /\ \A c \in DOMAIN forwards : \A i \in 1..Len(forwards[c]) :
        DOMAIN forwards[c][i].Ports # {}
  /\ \A o \in Occurrences(forwards) : IsNumber(o[3])

\* C10: Validate rejects every config in which a protocol and host port
\* number occur twice, and accepts every config without such a repeat whose
\* port sets are non-empty and whose host port keys are numbers.
C10_UniqueHostPorts ==
  verdict # NoVerdict =>
    /\ DuplicateHostPort(cfg) => ~verdict.ok
    /\ (~DuplicateHostPort(cfg) /\ WellFormed(cfg)) => verdict.ok

\* A host port key that is a decimal number not below zero.
NonNegativeKey(k) == IsNumber(k) /\ PortNumber[k] >= 0

\* C11: Validate rejects every config with a PortMappings whose Ports is
\* empty or with a host port key that is not a non-negative integer; so in
\* every config it accepts each Ports is non-empty and each key is a
\* non-negative integer.
C11_PortKeysNonNegative ==
  (verdict # NoVerdict /\ verdict.ok) =>
    /\ \A c \in DOMAIN cfg : \A i \in 1..Len(cfg[c]) : DOMAIN cfg[c][i].Ports # {}
    /\ \A o \in Occurrences(cfg) : NonNegativeKey(o[3])

\* A lifecycle event naming a container the config does not have.
ForUnconfigured(ev) ==
  /\ ev.metadata = "map" /\ ev.context = "map"
  /\ ev.container.type = "string" /\ ev.container.val \notin Containers
  /\ ev.message \in {Str(ContainerStarted), Str(ContainerStopped)}

\* C12: handling a ContainerStart or ContainerStop event of a container that
\* is not a key of the config calls neither ForwardContainer nor
\* ReverseContainer, leaves the daemon watching and leaves the tables as
\* they were.
C12_UnconfiguredDiscarded ==
  [][( /\ daemon = "watching" /\ queue # <<>> /\ ForUnconfigured(Head(queue))
       /\ Len(queue') < Len(queue) )
     => (daemon' = "watching" /\ tables' = tables /\ last' = last)]_vars

C12_Witness ==
  /\ daemon = "watching"
  /\ queue = <<>>
  /\ \E c \in Unconfigured : lastEvent[c] = ContainerStarted

\* The call the handler makes for a ContainerStart / ContainerStop message.
CallFor(message) ==
  IF message = ContainerStarted THEN "ForwardContainer" ELSE "ReverseContainer"

\* C13: the daemon keeps watching when the call the handler made for an
\* event returns an error, and after a call for container a has returned an
\* error, handling a ContainerStart or ContainerStop event of another
\* configured container b calls b's ForwardContainer or ReverseContainer.
C13_ErrorKeepsWatching ==
  [][\A b \in Containers : \A message \in {ContainerStarted, ContainerStopped} :
       ( /\ daemon = "watching" /\ queue # <<>>
         /\ Head(queue) = Lifecycle(b, message)
         /\ Len(queue') < Len(queue) )
       => /\ daemon' = "watching"
          /\ (failed \in Containers \ {b}) =>
               (last'.op = CallFor(message) /\ last'.container = b)]_vars

C13_Witness ==
  /\ daemon = "watching"
  /\ failed \in Containers
  /\ last.op \in {"ForwardContainer", "ReverseContainer"}
  /\ last.container \in Containers \ {failed}

\* A container with IPv4 and IPv6 addresses has just been forwarded, from
\* Absent, on a healthy backend and LXD.
ForwardedBoth(c) ==
  /\ last.op = "ForwardContainer" /\ last.container = c
  /\ ~last.err /\ last.healthy /\ snap # NoSnap
  /\ LiveAddresses(c, "inet") # {} /\ LiveAddresses(c, "inet6") # {}

\* The custom chains of a container in the table of one IP version, and
\* those of them an entry chain jumps to.
OwnedChains(tbl, v, c) ==
  DOMAIN tbl[v] \cap ({getChain(c)} \cup {getChainDir(c, d) : d \in Directions})

Hooked(tbl, v, chain) ==
  \E entry \in DOMAIN tbl[v] \ {chain} :
     \E i \in 1..Len(tbl[v][entry]) : JumpTarget(tbl[v][entry][i]) = chain

\* C14: a successful ForwardContainer of a container with IPv4 and IPv6
\* addresses leaves it with two hooked custom chains, one per direction, in
\* the table of each IP version, four in all; a ReverseContainer after it
\* leaves it with none.
C14_FourChains ==
  \A c \in Containers :
     /\ ForwardedBoth(c) =>
          \A v \in IPVersions :
             Cardinality({ch \in OwnedChains(tables, v, c) : Hooked(tables, v, ch)}) = 2
     /\ (last.op = "ReverseContainer" /\ last.container = c /\ last.healthy /\ snap # NoSnap)
          => \A v \in IPVersions : OwnedChains(tables, v, c) = {}

\* The custom chains a sequence of backend calls names.
ChainsNamed(calls) ==
  {calls[i].chain : i \in 1..Len(calls)} \ {"", "PREROUTING"}

\* C15: two (container, direction) pairs get the same chain name only when
\* they are the same pair, a pair gets the same name each time, the name
\* ForwardContainer and ReverseContainer compute for a container is the same
\* for two containers only when they are the same container, and
\* ReverseContainer names exactly the chains ForwardContainer names.
C15_ChainNameInjective ==
  chainNames # << >> =>
    /\ chainNames[1] = chainNames[2] =>
         (chainArgs[1] = chainArgs[3] /\ chainArgs[2] = chainArgs[4])
    /\ chainNames[3] = chainNames[1]
    /\ chainNames[4] = chainNames[5] => chainArgs[1] = chainArgs[3]
    /\ \A c \in Containers : \A ko \in KeyOrders(c) :
          ChainsNamed(ReverseCalls(c)) =
            ChainsNamed(ForwardCalls(c, << AddressOf[c].inet >>, << AddressOf[c].inet6 >>, ko))

C15_Witness ==
  /\ chainNames # << >>
  /\ chainArgs[1] = chainArgs[3] /\ chainArgs[2] # chainArgs[4]
  /\ chainNames[1] # chainNames[2]

\* C16: ForwardContainer of a container that is not in the config, or whose
\* ContainerState call fails, returns an error without a backend call, the
\* tables of both IP versions left as they were.
C16_NoCallWithoutState ==
  /\ \A container \in Names : \A inp \in ForwardInputs(container) :
        (container \notin Containers \/ inp.apiErr) =>
          LET r == ForwardContainer(container, inp, tables)
          IN  r.err /\ r.calls = <<>> /\ r.log = <<>> /\ r.tables = tables
  /\ (last.op = "ForwardContainer" /\ last.container \notin Containers) =>
        (last.err /\ ~last.changed /\ last.log = <<>>)

C16_Witness ==
  /\ last.op = "ForwardContainer" /\ last.container \in Containers
  /\ last.err /\ ~last.healthy /\ last.log = <<>> /\ ~last.changed
  /\ tables # InitTables

\* The tables when ReverseContainer is about to issue its k-th call.
TablesBefore(container, k, faults, tbl) ==
  Run(SubSeq(ReverseCalls(container), 1, k - 1), 1, faults, tbl, <<>>).tables

\* C17: in every ReverseContainer, whatever call fails, a ClearChain or
\* DeleteChain of the container's chain is issued only after the Delete of
\* the hook rule succeeded in that IP version and with no hook rule of the
\* chain left in that table; and when a Delete of the hook rule fails no
\* chain is cleared or deleted.
C17_HookBeforeChain ==
  \A c \in Containers : \A faults \in FaultSets(ReverseCalls(c)) :
     LET calls == ReverseCalls(c)
         r == ReverseContainer(c, faults, tables)
     IN  /\ \A k \in 1..Len(r.log) :
              calls[k].fn \in {"ClearChain", "DeleteChain"} =>
                /\ \E j \in 1..(k - 1) :
                      /\ calls[j].fn = "Delete" /\ calls[j].v = calls[k].v
                      /\ r.log[j]
                /\ HookCount(TablesBefore(c, k, faults, tables), calls[k].v, c) = 0
         /\ \A j \in 1..Len(r.log) :
              (calls[j].fn = "Delete" /\ ~r.log[j]) =>
                /\ Len(r.log) = j
                /\ \A v \in IPVersions :
                      /\ ChainExists(tables, v, c) => ChainExists(r.tables, v, c)
                      /\ Rules(r.tables, v, getChain(c)) = Rules(tables, v, getChain(c))

C17_Witness ==
  /\ last.op = "ReverseContainer" /\ last.container \in Containers
  /\ last.err /\ ~last.healthy
  /\ \A v \in IPVersions :
        /\ ChainExists(tables, v, last.container)
        /\ Rules(tables, v, getChain(last.container)) # <<>>
  /\ \E v \in IPVersions : HookCount(tables, v, last.container) = 1

\* C18: whatever calls were made and whichever of them failed partway,
\* PREROUTING of each IP version holds at most one hook rule of each
\* container, and a hook rule is there only with the chain it jumps to.
C18_HooksWellFormed ==
  \A c \in Containers : \A v \in IPVersions :
     /\ HookCount(tables, v, c) <= 1
     /\ HookCount(tables, v, c) >= 1 => ChainExists(tables, v, c)

C18_Witness ==
  /\ last.op = "ForwardContainer" /\ last.err /\ last.changed
  /\ HookCount(tables, IPv4, last.container) = 1
  /\ HookCount(tables, IPv6, last.container) = 0
  /\ \E c \in Containers \ {last.container} :
        \A v \in IPVersions : HookCount(tables, v, c) = 1

\* What the tables hold of one container: in each IP version whether its
\* chain exists, the rules of the chain and the number of its hook rules.
Own(tbl, c) ==
  [v \in IPVersions |->
     [chain |-> ChainExists(tbl, v, c),
      rules |-> Rules(tbl, v, getChain(c)),
      hooks |-> HookCount(tbl, v, c)]]

\* C19: however the backend calls of a command line Forward or Reverse and
\* of the handler's ForwardContainer and ReverseContainer calls interleave,
\* what the tables hold of each container (its chain, the rules in it, its
\* hook rule) is what they hold in the run in which only the calls for that
\* container are made, and each call returns what it returns in that run.
C19_Isolated ==
  /\ agree
  /\ \A c \in Containers : Own(tables, c) = Own(solo[c], c)

C19_Witness ==
  /\ running["command"] # NoJob /\ running["watcher"] # NoJob
  /\ running["command"].container # running["watcher"].container
  /\ running["command"].op = "ForwardContainer"
  /\ running["watcher"].op = "ReverseContainer"
  /\ running["command"].i > 6 /\ running["watcher"].i > 6
  /\ Active(tables, running["command"].container)

Next ==
  \/ \E container \in Containers \cup {"c"} : CallForwardContainer(container)
  \/ \E container \in Containers \cup {"c"} : CallReverseContainer(container)
  \/ CallForward
  \/ CallReverse

Spec == Init /\ [][Next]_vars

====
